---- MODULE Spec2Model ----
(***************************************************************************)
(* Model of the pyGuard / GuardDog repository: the requirements resolvers  *)
(* (pysecurity RequirementsScanner.parse_requirements and guarddog         *)
(* PypiRequirementsScanner.parse_requirements), the rule selection of the  *)
(* command line (guarddog/cli.py) and the detector dispatch of             *)
(* pysecurity's Analyzer.                                                  *)
(*                                                                         *)
(* A Python str is a sequence of one-character strings, so that Python's   *)
(* string ordering, str.split, str.startswith, set(str) and re.search are  *)
(* computed as Python computes them.                                       *)
(***************************************************************************)
EXTENDS Integers, Sequences, FiniteSets, TLC

\* ------------------------------------------------------------------------
\* Bounds of the model
\* ------------------------------------------------------------------------
\* lines of one manifest
MaxLines == 2
\* (qualifier, version) pairs of one requirement line
MaxSpecs == 2
\* occurrences of --rules, and of --exclude-rules, on one command line
MaxRules == 2
\* findings the engine reports for one source tree
MaxFindings == 2

\* ------------------------------------------------------------------------
\* Python strings
\* ------------------------------------------------------------------------
\* code points of the characters that occur in version and specifier strings
Ord(c) ==
    CASE c = "," -> 44 [] c = "." -> 46
      [] c = "0" -> 48 [] c = "1" -> 49 [] c = "2" -> 50 [] c = "3" -> 51
      [] c = "4" -> 52 [] c = "5" -> 53 [] c = "6" -> 54 [] c = "7" -> 55
      [] c = "8" -> 56 [] c = "9" -> 57
      [] c = "<" -> 60 [] c = "=" -> 61 [] c = ">" -> 62
      [] c = "!" -> 33 [] c = "~" -> 126

\* s < t for two Python str: the first differing character decides, a proper
\* prefix is smaller
StrLt(s, t) ==
    \E i \in 1..(Len(t)) :
        /\ i <= Len(s) + 1
        /\ \A j \in 1..(i - 1) : s[j] = t[j]
        /\ \/ i = Len(s) + 1
           \/ Ord(s[i]) < Ord(t[i])

StrLe(s, t) == s = t \/ StrLt(s, t)

\* s.startswith(p)
StartsWith(s, p) == Len(p) <= Len(s) /\ SubSeq(s, 1, Len(p)) = p

\* set(s): the set of the characters of s, each a string of length one
CharSet(s) == { <<s[i]>> : i \in 1..Len(s) }

\* "".join(s.split(".")[:-1]): the characters before the last "." of s, with
\* the other dots removed (nothing when s holds no ".")
JoinedPrefix(s) ==
    LET dots == { i \in 1..Len(s) : s[i] = "." }
        last == IF dots = {} THEN 0 ELSE CHOOSE i \in dots : \A j \in dots : j <= i
        isDigitOrOther(c) == c # "."
    IN  IF last = 0 THEN <<>> ELSE SelectSeq(SubSeq(s, 1, last - 1), isDigitOrOther)

\* re.search(pattern, s) is not None, for a pattern of digits and dots: a dot
\* matches any character, a digit matches itself, at any offset of s
ReSearch(pattern, s) ==
    \E off \in 0..(Len(s) - Len(pattern)) :
        \A i \in 1..Len(pattern) :
            pattern[i] = "." \/ pattern[i] = s[off + i]

\* sorted(S, reverse=True) for a set of str
RECURSIVE SortedReverse(_)
SortedReverse(S) ==
    IF S = {} THEN <<>>
    ELSE LET m == CHOOSE x \in S : \A y \in S : StrLe(y, x)
         IN  <<m>> \o SortedReverse(S \ {m})

\* ------------------------------------------------------------------------
\* Version ordering (PEP 440, release segments only)
\* ------------------------------------------------------------------------
DigitVal(c) == Ord(c) - 48

\* int(s) for a string of digits
RECURSIVE ToInt(_)
ToInt(s) ==
    IF s = <<>> THEN 0
    ELSE 10 * ToInt(SubSeq(s, 1, Len(s) - 1)) + DigitVal(s[Len(s)])

\* the release segments of a version string, as numbers
RECURSIVE Release(_)
Release(s) ==
    LET dots == { i \in 1..Len(s) : s[i] = "." }
    IN  IF dots = {} THEN << ToInt(s) >>
        ELSE LET d == CHOOSE i \in dots : \A j \in dots : i <= j
             IN  << ToInt(SubSeq(s, 1, d - 1)) >> \o Release(SubSeq(s, d + 1, Len(s)))

Seg(r, i) == IF i <= Len(r) THEN r[i] ELSE 0

\* Version(a) < Version(b): segments compared as numbers, missing ones are 0
VerLt(a, b) ==
    LET ra == Release(a)
        rb == Release(b)
        n  == IF Len(ra) > Len(rb) THEN Len(ra) ELSE Len(rb)
    IN  \E i \in 1..n :
            /\ \A j \in 1..(i - 1) : Seg(ra, j) = Seg(rb, j)
            /\ Seg(ra, i) < Seg(rb, i)

VerEq(a, b) == ~VerLt(a, b) /\ ~VerLt(b, a)
VerLe(a, b) == ~VerLt(b, a)

\* ------------------------------------------------------------------------
\* The package index
\* ------------------------------------------------------------------------
v0_9   == <<"0", ".", "9">>
v1_0   == <<"1", ".", "0">>
v1_3   == <<"1", ".", "3">>
v1_4   == <<"1", ".", "4">>
v1_4_2 == <<"1", ".", "4", ".", "2">>
v1_5   == <<"1", ".", "5">>
v1_9   == <<"1", ".", "9">>
v1_10  == <<"1", ".", "1", "0">>
v2_0   == <<"2", ".", "0">>
v2_1   == <<"2", ".", "1">>

\* project names of the requirement lines; "ghost" is not on PyPI
ProjectNames == {"alpha", "beta", "gamma", "ghost"}

\* data["releases"].keys() of each project that is on PyPI
Releases ==
    [ alpha |-> {v0_9, v1_0, v1_5, v1_9, v2_0, v2_1},
      beta  |-> {v1_3, v1_4, v1_4_2, v1_5, v2_0},
      gamma |-> {v1_9, v1_10} ]

OnPyPI(package_name) == package_name \in DOMAIN Releases

\* the qualifiers a requirement line can carry; "!=" is none of the cases of
\* pysecurity's match statement
Qualifiers == {">", "<", ">=", "<=", "==", "~=", "!="}

\* the versions a requirement line can name
BoundVersions == {v1_0, v1_4, v1_9, v2_0}

Specs == Qualifiers \X BoundVersions

\* ------------------------------------------------------------------------
\* State
\* ------------------------------------------------------------------------
VARIABLES
    \* pysecurity RequirementsScanner.parse_requirements
    pc,               \* "req": the outer for is about to take the next line,
                      \* "spec": inside the for over requirement.specs,
                      \* "done": parse_requirements has returned (and
                      \* scan_requirements iterates over its result),
                      \* "raised": scan_requirements has raised,
                      \* "returned": scan_requirements has returned
    remaining,        \* sanitized lines of the manifest not yet read
    requirement,      \* project_name of the requirement of the current line
    specs,            \* the part of requirement.specs already iterated
    valid_versions,   \* the local of that name
    dependencies,     \* the dict that is returned
    stderr,           \* what was written to sys.stderr
    dependencies_keys,\* the keys of dependencies in insertion order
    scan_index,       \* position of scan_requirements in dependencies.items()
    project_results,  \* the dict scan_requirements builds
    \* guarddog PypiRequirementsScanner.parse_requirements
    gd_pc,            \* "req": the for is about to take the next line,
                      \* "done": parse_requirements has returned
    gd_remaining,     \* sanitized lines of the manifest not yet read
    gd_requirement,   \* the requirement of the current line: project_name
                      \* and specifier, or None for a line that did not parse
    gd_dependencies,  \* the dict that is returned
    gd_stderr,        \* what was written to sys.stderr
    VERIFY_EXHAUSTIVE_DEPENDENCIES,  \* the configuration flag of that name
    \* guarddog cli: _verify
    cli_pc,           \* "start", "rule_param" (after _get_rule_pram),
                      \* "scanner" (after get_scanner), "scanned" (after
                      \* scan_local), "returned", "exit"
    rules,            \* the tuple of the --rules options
    exclude_rules,    \* the tuple of the --exclude-rules options
    rule_param,       \* the local of that name
    scan_calls,       \* the rule_param of each scanner.scan_local call, the
                      \* only place where detectors and the engine run
    exit_code,        \* the status of exit(), NoExit while running
    stdout,           \* what was printed
    \* pysecurity Analyzer.analyze
    an_pc,            \* "analyze", "classify", "metadata", "sourcecode",
                      \* "returned", "raised"
    an_rules,         \* the rules argument: None or a set
    an_pending,       \* the elements the current for loop has not visited
    sourcecode_rules, \* the local of that name
    metadata_rules,   \* the local of that name
    results,          \* the dict analyze_metadata builds
    an_stderr,        \* what was written to sys.stderr
    an_exception,     \* the message of the exception analyze raised
    detect_calls,     \* rules whose detector's detect() was called
    semgrep_calls,    \* rule definitions invoke_semgrep was called with
    detect_outcome,   \* what each detector's detect(info) does: the value
                      \* it returns, or "raise"
    engine_findings,  \* the findings of the pattern-matching engine over
                      \* the source tree, for the whole ruleset, in the
                      \* order the engine reports them
    sc_results        \* the dict analyze_sourcecode builds

rsVars == <<pc, remaining, requirement, specs, valid_versions, dependencies, stderr,
            dependencies_keys, scan_index, project_results>>

gdVars == <<gd_pc, gd_remaining, gd_requirement, gd_dependencies, gd_stderr,
            VERIFY_EXHAUSTIVE_DEPENDENCIES>>

cliVars == <<cli_pc, rules, exclude_rules, rule_param, scan_calls, exit_code, stdout>>

anVars == <<an_pc, an_rules, an_pending, sourcecode_rules, metadata_rules, results,
            an_stderr, an_exception, detect_calls, semgrep_calls, detect_outcome,
            engine_findings, sc_results>>

vars == <<rsVars, gdVars, cliVars, anVars>>

\* ------------------------------------------------------------------------
\* pysecurity: RequirementsScanner.parse_requirements
\* ------------------------------------------------------------------------
\* a Python value that is None or a set
None == [kind |-> "None", v |-> {}]
SetOf(S) == [kind |-> "set", v |-> S]

NoRequirement == "-"

\* dict[key] = value
DictPut(d, key, value) ==
    [k \in (DOMAIN d) \cup {key} |-> IF k = key THEN value ELSE d[k]]

EmptyDict == [k \in {} |-> None]

\* the first version of the decreasing list that is >= version (as str) and
\* starts with prefix; used_versions stays None when there is none
FirstCompatible(available_versions, version, prefix) ==
    LET hits == { i \in 1..Len(available_versions) :
                    /\ StrLe(version, available_versions[i])
                    /\ StartsWith(available_versions[i], prefix) }
    IN  IF hits = {} THEN None
        ELSE LET first == CHOOSE i \in hits : \A j \in hits : i <= j
             IN  SetOf(CharSet(available_versions[first]))

\* used_versions after the match statement; kind "unknown" is the case _
\* branch, which writes a diagnostic and continues
UsedVersions(qualifier, version, available_versions) ==
    LET avail == { available_versions[i] : i \in 1..Len(available_versions) }
    IN  CASE qualifier = ">"  -> SetOf({ v \in avail : StrLt(version, v) })
          [] qualifier = "<"  -> SetOf({ v \in avail : StrLt(v, version) })
          [] qualifier = ">=" -> SetOf({ v \in avail : StrLe(version, v) })
          [] qualifier = "<=" -> SetOf({ v \in avail : StrLe(v, version) })
          [] qualifier = "==" -> SetOf({ v \in avail : ReSearch(version, v) })
          [] qualifier = "~=" ->
                FirstCompatible(available_versions, version, JoinedPrefix(version))
          [] OTHER -> [kind |-> "unknown", v |-> {}]

\* versions(package_name): the decreasing list of the published versions
Versions(package_name) == SortedReverse(Releases[package_name])

\* sanitize_requirements drops a line that does not start with a word
\* character (a blank line, a comment, an option)
SkipLine ==
    /\ pc = "req"
    /\ remaining > 0
    /\ remaining' = remaining - 1
    /\ UNCHANGED <<pc, requirement, specs, valid_versions, dependencies, stderr>>
    /\ UNCHANGED <<dependencies_keys, scan_index, project_results>>

\* the for statement takes the next requirement of the generator
TakeRequirement ==
    /\ pc = "req"
    /\ remaining > 0
    /\ \E name \in ProjectNames :
        /\ requirement' = name
        /\ specs' = <<>>
        /\ valid_versions' = None
        /\ pc' = "spec"
        /\ remaining' = remaining - 1
    /\ UNCHANGED <<dependencies, stderr>>
    /\ UNCHANGED <<dependencies_keys, scan_index, project_results>>

\* pkg_resources raises on a line that is no requirement: the except clause
\* around the for loop writes the error and the function returns
BadLine ==
    /\ pc = "req"
    /\ remaining > 0
    /\ remaining' = remaining - 1
    /\ stderr' = stderr \cup {<<"Received error", "parse">>}
    /\ pc' = "done"
    /\ UNCHANGED <<requirement, specs, valid_versions, dependencies>>
    /\ UNCHANGED <<dependencies_keys, scan_index, project_results>>

\* the generator is exhausted
EndOfRequirements ==
    /\ pc = "req"
    /\ remaining = 0
    /\ pc' = "done"
    /\ UNCHANGED <<remaining, requirement, specs, valid_versions, dependencies, stderr>>
    /\ UNCHANGED <<dependencies_keys, scan_index, project_results>>

\* one iteration of the for over requirement.specs (the specifiers of a
\* requirement form a set: no pair comes twice)
ProcessSpec ==
    /\ pc = "spec"
    /\ Len(specs) < MaxSpecs
    /\ \E spec \in Specs \ { specs[i] : i \in 1..Len(specs) } :
        LET qualifier == spec[1]
            version == spec[2]
        IN  /\ specs' = Append(specs, spec)
            /\ IF ~OnPyPI(requirement)
               THEN /\ stderr' = stderr \cup {<<"not on PyPI", requirement>>}
                    /\ UNCHANGED <<pc, valid_versions>>
               ELSE LET used_versions ==
                            UsedVersions(qualifier, version, Versions(requirement))
                    IN  IF used_versions.kind = "unknown"
                        THEN /\ stderr' = stderr \cup {<<"Unknown qualifier", qualifier>>}
                             /\ UNCHANGED <<pc, valid_versions>>
                        ELSE IF valid_versions = None
                        THEN /\ valid_versions' = used_versions
                             /\ UNCHANGED <<pc, stderr>>
                        ELSE IF used_versions = None
                        THEN \* set & None raises TypeError
                             /\ stderr' = stderr \cup {<<"Received error", "TypeError">>}
                             /\ pc' = "done"
                             /\ UNCHANGED valid_versions
                        ELSE /\ valid_versions' =
                                    SetOf(valid_versions.v \cap used_versions.v)
                             /\ UNCHANGED <<pc, stderr>>
    /\ UNCHANGED <<remaining, requirement, dependencies>>
    /\ UNCHANGED <<dependencies_keys, scan_index, project_results>>

\* requirement.specs is exhausted: dependencies[project_name] = valid_versions
EndRequirement ==
    /\ pc = "spec"
    /\ dependencies' = DictPut(dependencies, requirement, valid_versions)
    /\ dependencies_keys' = IF requirement \in DOMAIN dependencies
                            THEN dependencies_keys
                            ELSE Append(dependencies_keys, requirement)
    /\ pc' = "req"
    /\ UNCHANGED <<remaining, requirement, specs, valid_versions, stderr,
                   scan_index, project_results>>

\* ------------------------------------------------------------------------
\* pysecurity: RequirementsScanner.scan_requirements
\* ------------------------------------------------------------------------
\* what package_scanner.scan_remote(dependency, version) returns
package_results == "package_results"

\* f"{dependency}/{version}"
ResultKey(dependency, version) == <<dependency, "/", version>>

\* for version in versions: project_results[f"{dependency}/{version}"] =
\* package_results (a set is iterated in no particular order; the keys of
\* one dependency are distinct)
ScanVersions(results_so_far, dependency, versions) ==
    [k \in (DOMAIN results_so_far) \cup { ResultKey(dependency, v) : v \in versions }
        |-> package_results]

\* one iteration of "for dependency, versions in dependencies.items()";
\* iterating over None raises TypeError, which scan_requirements does not
\* catch
ScanDependency ==
    /\ pc = "done"
    /\ scan_index <= Len(dependencies_keys)
    /\ LET dependency == dependencies_keys[scan_index]
           versions == dependencies[dependency]
       IN  IF versions = None
           THEN /\ pc' = "raised"
                /\ UNCHANGED <<scan_index, project_results>>
           ELSE /\ project_results' = ScanVersions(project_results, dependency, versions.v)
                /\ scan_index' = scan_index + 1
                /\ UNCHANGED pc
    /\ UNCHANGED <<remaining, requirement, specs, valid_versions, dependencies, stderr,
                   dependencies_keys>>

\* dependencies.items() is exhausted: return project_results
ScanReturn ==
    /\ pc = "done"
    /\ scan_index > Len(dependencies_keys)
    /\ pc' = "returned"
    /\ UNCHANGED <<remaining, requirement, specs, valid_versions, dependencies, stderr,
                   dependencies_keys, scan_index, project_results>>


\* ------------------------------------------------------------------------
\* packaging.specifiers.Specifier (PEP 440, release segments only)
\* ------------------------------------------------------------------------
\* the characters of an operator
OperatorChars(qualifier) ==
    CASE qualifier = ">"  -> <<">">>
      [] qualifier = "<"  -> <<"<">>
      [] qualifier = ">=" -> <<">", "=">>
      [] qualifier = "<=" -> <<"<", "=">>
      [] qualifier = "==" -> <<"=", "=">>
      [] qualifier = "~=" -> <<"~", "=">>
      [] qualifier = "!=" -> <<"!", "=">>

\* str(Specifier): operator followed by version
SpecStr(spec) == OperatorChars(spec[1]) \o spec[2]

\* sorted(S) for a set of str
RECURSIVE Sorted(_)
Sorted(S) ==
    IF S = {} THEN <<>>
    ELSE LET m == CHOOSE x \in S : \A y \in S : StrLe(x, y)
         IN  <<m>> \o Sorted(S \ {m})

\* ",".join(strs)
RECURSIVE JoinComma(_)
JoinComma(strs) ==
    IF strs = <<>> THEN <<>>
    ELSE IF Len(strs) = 1 THEN strs[1]
    ELSE strs[1] \o <<",">> \o JoinComma(Tail(strs))

\* str(requirement.specifier): the specifiers of the set, sorted and joined
SpecifierSetStr(specifier) == JoinComma(Sorted({ SpecStr(sp) : sp \in specifier }))

\* Specifier.contains: does the version a satisfy "qualifier version"
Contains(qualifier, version, a) ==
    CASE qualifier = ">"  -> VerLt(version, a)
      [] qualifier = "<"  -> VerLt(a, version)
      [] qualifier = ">=" -> VerLe(version, a)
      [] qualifier = "<=" -> VerLe(a, version)
      [] qualifier = "==" -> VerEq(a, version)
      [] qualifier = "!=" -> ~VerEq(a, version)
      [] qualifier = "~=" ->
            /\ VerLe(version, a)
            /\ \A i \in 1..(Len(Release(version)) - 1) :
                   Seg(Release(a), i) = Release(version)[i]

\* ------------------------------------------------------------------------
\* guarddog: PypiRequirementsScanner.parse_requirements
\* ------------------------------------------------------------------------
\* the versions a requirement line of the guarddog manifests can name
GDBoundVersions == {v1_4, v1_9}

GDSpecs == Qualifiers \X GDBoundVersions

\* requirement.specifier: a set of at most MaxSpecs specifiers
GDSpecifiers == { S \in SUBSET GDSpecs : Cardinality(S) <= MaxSpecs }

\* [sorted(result).pop()]: the greatest element in str order
BestMatch(result) ==
    LET S == { result[i] : i \in 1..Len(result) }
    IN  << CHOOSE x \in S : \A y \in S : StrLe(y, x) >>

\* find_all_versions(package_name, semver_range) for a project that is on
\* PyPI. Specifier(semver_range) raises ValueError unless semver_range is
\* one single specifier, and the range is then kept raw.
find_all_versions(package_name, specifier, exhaustive) ==
    LET versions == Versions(package_name)
        isIn(v) == \A sp \in specifier : Contains(sp[1], sp[2], v)
        result == IF Cardinality(specifier) = 1
                  THEN SelectSeq(versions, isIn)
                  ELSE << SpecifierSetStr(specifier) >>
        kept == IF ~exhaustive /\ result # <<>> THEN BestMatch(result) ELSE result
    IN  { kept[i] : i \in 1..Len(kept) }

NoGDRequirement == [project_name |-> "-", specifier |-> {}]

\* _sanitize_requirements drops a line that does not start with a word
\* character
GDSkipLine ==
    /\ gd_pc = "req"
    /\ gd_remaining > 0
    /\ gd_remaining' = gd_remaining - 1
    /\ UNCHANGED <<gd_pc, gd_requirement, gd_dependencies, gd_stderr,
                   VERIFY_EXHAUSTIVE_DEPENDENCIES>>

\* safe_parse_requirements: next(parsed) raises on a line that is no
\* requirement; the error is written, None is yielded and the loop goes on
\* with the next line (parsed is a map object, which an exception of the
\* mapped function does not exhaust)
GDBadLine ==
    /\ gd_pc = "req"
    /\ gd_remaining > 0
    /\ gd_remaining' = gd_remaining - 1
    /\ gd_requirement' = NoGDRequirement
    /\ gd_stderr' = gd_stderr \cup {<<"Error when parsing requirements">>}
    /\ UNCHANGED <<gd_pc, gd_dependencies, VERIFY_EXHAUSTIVE_DEPENDENCIES>>

\* one iteration of the for loop for a line that parsed
GDRequirement ==
    /\ gd_pc = "req"
    /\ gd_remaining > 0
    /\ gd_remaining' = gd_remaining - 1
    /\ \E name \in ProjectNames, specifier \in GDSpecifiers :
        /\ gd_requirement' = [project_name |-> name, specifier |-> specifier]
        /\ IF ~OnPyPI(name)
           THEN /\ gd_stderr' = gd_stderr \cup {<<"not on PyPI", name>>}
                /\ UNCHANGED gd_dependencies
           ELSE /\ gd_dependencies' =
                       DictPut(gd_dependencies, name,
                               find_all_versions(name, specifier,
                                                 VERIFY_EXHAUSTIVE_DEPENDENCIES))
                /\ UNCHANGED gd_stderr
    /\ UNCHANGED <<gd_pc, VERIFY_EXHAUSTIVE_DEPENDENCIES>>

\* StopIteration: the generator ends and the dict is returned
GDEndOfRequirements ==
    /\ gd_pc = "req"
    /\ gd_remaining = 0
    /\ gd_pc' = "done"
    /\ UNCHANGED <<gd_remaining, gd_requirement, gd_dependencies, gd_stderr,
                   VERIFY_EXHAUSTIVE_DEPENDENCIES>>

\* ------------------------------------------------------------------------
\* guarddog: cli._get_rule_pram and cli._verify
\* ------------------------------------------------------------------------
\* the keys of get_metadata_detectors(...) and the semgrep rule names
MetadataDetectorNames == {"typosquatting", "empty_information"}
SEMGREP_RULE_NAMES == {"shady-links", "exec-base64"}
ALL_RULES == MetadataDetectorNames \cup SEMGREP_RULE_NAMES

\* set(t) for a tuple t
TupleSet(t) == { t[i] : i \in 1..Len(t) }

\* the tuples click hands over for a multiple option of type Choice(ALL_RULES)
RuleTuples == UNION { [1..n -> ALL_RULES] : n \in 0..MaxRules }

NoExit == -1

\* _get_rule_pram without the check of the conflicting options
get_rule_pram_without_check(rules_, exclude_rules_) ==
    [rule_param |->
        IF Len(exclude_rules_) > 0
        THEN [kind |-> "set", v |-> ALL_RULES \ TupleSet(exclude_rules_), t |-> <<>>]
        ELSE IF Len(rules_) > 0
        THEN [kind |-> "tuple", v |-> TupleSet(rules_), t |-> rules_]
        ELSE [kind |-> "None", v |-> {}, t |-> <<>>],
     exits |-> FALSE]

\* _get_rule_pram(rules, exclude_rules): the value of rule_param and whether
\* the function printed the message and called exit(1)
get_rule_pram(rules_, exclude_rules_) ==
    LET p1 == IF Len(rules_) > 0
              THEN [kind |-> "tuple", v |-> TupleSet(rules_), t |-> rules_]
              ELSE [kind |-> "None", v |-> {}, t |-> <<>>]
        p2 == IF Len(exclude_rules_) > 0
              THEN [kind |-> "set", v |-> ALL_RULES \ TupleSet(exclude_rules_), t |-> <<>>]
              ELSE p1
    IN  [rule_param |-> p2,
         exits |-> Len(exclude_rules_) > 0 /\ Len(rules_) > 0]

\* rule_param = _get_rule_pram(rules, exclude_rules)
VerifyGetRuleParam ==
    /\ cli_pc = "start"
    /\ LET r == get_rule_pram(rules, exclude_rules)
       IN  /\ rule_param' = r.rule_param
           /\ IF r.exits
              THEN /\ stdout' = stdout \cup
                        {"--rules and --exclude-rules cannot be used together"}
                   /\ exit_code' = 1
                   /\ cli_pc' = "exit"
              ELSE /\ cli_pc' = "rule_param"
                   /\ UNCHANGED <<stdout, exit_code>>
    /\ UNCHANGED <<rules, exclude_rules, scan_calls>>

\* scanner = get_scanner(ecosystem, True); None for an ecosystem without a
\* project scanner
VerifyGetScanner ==
    /\ cli_pc = "rule_param"
    /\ \E supported \in BOOLEAN :
        IF supported
        THEN /\ cli_pc' = "scanner"
             /\ UNCHANGED exit_code
        ELSE /\ cli_pc' = "exit"
             /\ exit_code' = 1
    /\ UNCHANGED <<rules, exclude_rules, rule_param, scan_calls, stdout>>

\* results = scanner.scan_local(path, rule_param)
VerifyScanLocal ==
    /\ cli_pc = "scanner"
    /\ scan_calls' = Append(scan_calls, rule_param)
    /\ cli_pc' = "scanned"
    /\ UNCHANGED <<rules, exclude_rules, rule_param, exit_code, stdout>>

\* the results are printed and _verify returns
VerifyReturn ==
    /\ cli_pc = "scanned"
    /\ stdout' = stdout \cup {"results"}
    /\ cli_pc' = "returned"
    /\ UNCHANGED <<rules, exclude_rules, rule_param, scan_calls, exit_code>>

\* ------------------------------------------------------------------------
\* pysecurity: Analyzer.analyze and Analyzer.analyze_metadata
\* ------------------------------------------------------------------------
\* the keys of self.metadata_detectors, which are self.metadata_ruleset
metadata_ruleset == {"typosquatting", "compromised_email", "empty_information"}
\* the .yml files of the sourcecode directory
sourcecode_ruleset == {"shady-links", "exec-base64"}

\* the names a caller can put into rules: the catalog and a name that is in
\* neither ruleset
RuleNames == metadata_ruleset \cup sourcecode_ruleset \cup {"no-such-rule"}

\* what detect(info) of one detector can do
DetectOutcomes == {"True", "False", "raise"}

NoException == <<>>

\* analyze: rules is None runs everything, else the for loop classifies
AnalyzeEnter ==
    /\ an_pc = "analyze"
    /\ IF an_rules = None
       THEN /\ an_pc' = "metadata"
            /\ an_pending' = metadata_ruleset
       ELSE /\ an_pc' = "classify"
            /\ an_pending' = an_rules.v
    /\ UNCHANGED <<an_rules, sourcecode_rules, metadata_rules, results, an_stderr,
                   an_exception, detect_calls, semgrep_calls, detect_outcome, engine_findings, sc_results>>

\* a classification loop that runs the detector of a metadata rule as soon
\* as the rule is classified
ClassifyDispatching ==
    /\ an_pc = "classify"
    /\ \E rule \in an_pending :
        /\ an_pending' = an_pending \ {rule}
        /\ IF rule \in sourcecode_ruleset
           THEN /\ sourcecode_rules' = sourcecode_rules \cup {rule}
                /\ UNCHANGED <<metadata_rules, an_pc, an_exception, detect_calls>>
           ELSE IF rule \in metadata_ruleset
           THEN /\ metadata_rules' = metadata_rules \cup {rule}
                /\ detect_calls' = detect_calls \cup {rule}
                /\ UNCHANGED <<sourcecode_rules, an_pc, an_exception>>
           ELSE /\ an_exception' = <<rule, " is not a valid rule.">>
                /\ an_pc' = "raised"
                /\ UNCHANGED <<sourcecode_rules, metadata_rules, detect_calls>>
    /\ UNCHANGED <<an_rules, results, an_stderr, semgrep_calls, detect_outcome, engine_findings, sc_results>>

\* one iteration of "for rule in rules" of analyze
Classify ==
    /\ an_pc = "classify"
    /\ \E rule \in an_pending :
        /\ an_pending' = an_pending \ {rule}
        /\ IF rule \in sourcecode_ruleset
           THEN /\ sourcecode_rules' = sourcecode_rules \cup {rule}
                /\ UNCHANGED <<metadata_rules, an_pc, an_exception>>
           ELSE IF rule \in metadata_ruleset
           THEN /\ metadata_rules' = metadata_rules \cup {rule}
                /\ UNCHANGED <<sourcecode_rules, an_pc, an_exception>>
           ELSE /\ an_exception' = <<rule, " is not a valid rule.">>
                /\ an_pc' = "raised"
                /\ UNCHANGED <<sourcecode_rules, metadata_rules>>
    /\ UNCHANGED <<an_rules, results, an_stderr, detect_calls, semgrep_calls,
                   detect_outcome, engine_findings, sc_results>>

\* the for loop of analyze ends: analyze_metadata(info, metadata_rules)
ClassifyDone ==
    /\ an_pc = "classify"
    /\ an_pending = {}
    /\ an_pc' = "metadata"
    /\ an_pending' = metadata_rules
    /\ UNCHANGED <<an_rules, sourcecode_rules, metadata_rules, results, an_stderr,
                   an_exception, detect_calls, semgrep_calls, detect_outcome, engine_findings, sc_results>>

\* a detector loop that a raising detector ends
DetectBreaking ==
    /\ an_pc = "metadata"
    /\ \E rule \in an_pending :
        /\ detect_calls' = detect_calls \cup {rule}
        /\ IF detect_outcome[rule] = "raise"
           THEN /\ an_stderr' = an_stderr \cup {<<"Error while analyzing", rule>>}
                /\ an_pending' = {}
                /\ UNCHANGED results
           ELSE /\ results' = DictPut(results, rule, detect_outcome[rule])
                /\ an_pending' = an_pending \ {rule}
                /\ UNCHANGED an_stderr
    /\ UNCHANGED <<an_pc, an_rules, sourcecode_rules, metadata_rules, an_exception,
                   semgrep_calls, detect_outcome, engine_findings, sc_results>>

\* one iteration of "for rule in all_rules" of analyze_metadata
Detect ==
    /\ an_pc = "metadata"
    /\ \E rule \in an_pending :
        /\ an_pending' = an_pending \ {rule}
        /\ detect_calls' = detect_calls \cup {rule}
        /\ IF detect_outcome[rule] = "raise"
           THEN /\ an_stderr' = an_stderr \cup {<<"Error while analyzing", rule>>}
                /\ UNCHANGED results
           ELSE /\ results' = DictPut(results, rule, detect_outcome[rule])
                /\ UNCHANGED an_stderr
    /\ UNCHANGED <<an_pc, an_rules, sourcecode_rules, metadata_rules, an_exception,
                   semgrep_calls, detect_outcome, engine_findings, sc_results>>

\* ------------------------------------------------------------------------
\* pysecurity: Analyzer.analyze_sourcecode and _format_semgrep_response
\* ------------------------------------------------------------------------
\* the matched files, start lines and matched texts of the findings
FindingPaths == {"setup.py"}
FindingLines == {1, 2}
FindingTexts == {"exec(x)", "eval(y)"}

\* one result of the response: check_id is the dotted path of the rule, its
\* last component the name of the rule definition; path is given relative to
\* the scanned directory
Findings ==
    [check_id : { <<"sourcecode", r>> : r \in sourcecode_ruleset },
     path : FindingPaths, line : FindingLines, lines : FindingTexts]

\* the responses the engine can give for the whole ruleset
Responses(n) == UNION { [1..k -> Findings] : k \in 0..n }

\* result["check_id"].split(".")[-1]
LastComponent(check_id) == check_id[Len(check_id)]

NoRule == ""

\* invoke_semgrep(config, [targetpath], ...)["results"]: all findings for
\* the sourcecode directory, those of one rule for its definition file
invoke_semgrep(config, findings) ==
    IF config = "sourcecode/" THEN findings
    ELSE LET ofRule(f) == LastComponent(f.check_id) = config
         IN  SelectSeq(findings, ofRule)

\* a | b for two dicts
DictUnion(a, b) ==
    [k \in (DOMAIN a) \cup (DOMAIN b) |-> IF k \in DOMAIN b THEN b[k] ELSE a[k]]

\* a grouping that labels every finding by its whole check_id
RECURSIVE format_semgrep_response_whole_id(_, _)
format_semgrep_response_whole_id(response, rule) ==
    IF response = <<>> THEN <<>>
    ELSE LET n == Len(response)
             result == response[n]
             before == format_semgrep_response_whole_id(SubSeq(response, 1, n - 1), rule)
             label == IF rule # NoRule THEN rule
                      ELSE result.check_id[1] \o "." \o LastComponent(result.check_id)
             location == <<result.path, result.line>>
             old == IF label \in DOMAIN before THEN before[label] ELSE <<>>
         IN  DictPut(before, label, DictPut(old, location, result.lines))

\* _format_semgrep_response(response, rule, targetpath): the findings grouped
\* by label, each group a dict from "file:line" to the matched text, a later
\* finding overwriting an earlier one at the same location
RECURSIVE format_semgrep_response(_, _)
format_semgrep_response(response, rule) ==
    IF response = <<>> THEN <<>>
    ELSE LET n == Len(response)
             result == response[n]
             before == format_semgrep_response(SubSeq(response, 1, n - 1), rule)
             label == IF rule # NoRule THEN rule ELSE LastComponent(result.check_id)
             location == <<result.path, result.line>>
             old == IF label \in DOMAIN before THEN before[label] ELSE <<>>
         IN  DictPut(before, label, DictPut(old, location, result.lines))

\* results = {rule: {} for rule in all_rules}
NoLocations(all_rules) == [rule \in all_rules |-> <<>>]

\* analyze_metadata returns results: analyze_sourcecode is entered
MetadataDone ==
    /\ an_pc = "metadata"
    /\ an_pending = {}
    /\ an_pc' = "sourcecode"
    /\ an_pending' = IF an_rules = None THEN {} ELSE sourcecode_rules
    /\ sc_results' = NoLocations(IF an_rules = None THEN sourcecode_ruleset
                                 ELSE sourcecode_rules)
    /\ UNCHANGED <<an_rules, sourcecode_rules, metadata_rules, results, an_stderr,
                   an_exception, detect_calls, semgrep_calls, detect_outcome, engine_findings>>

\* rules is None: one invoke_semgrep over the whole sourcecode directory
SemgrepBatch ==
    /\ an_pc = "sourcecode"
    /\ an_rules = None
    /\ semgrep_calls' = semgrep_calls \cup {"sourcecode/"}
    /\ sc_results' =
          DictUnion(sc_results,
                    format_semgrep_response(
                        invoke_semgrep("sourcecode/", engine_findings), NoRule))
    /\ an_pc' = "returned"
    /\ UNCHANGED <<an_rules, an_pending, sourcecode_rules, metadata_rules, results,
                   an_stderr, an_exception, detect_calls, detect_outcome, engine_findings>>

\* one iteration of "for rule in rules" of analyze_sourcecode; the engine
\* fails for a rule without a definition file
SemgrepRule ==
    /\ an_pc = "sourcecode"
    /\ an_rules # None
    /\ \E rule \in an_pending :
        /\ an_pending' = an_pending \ {rule}
        /\ semgrep_calls' = semgrep_calls \cup {rule}
        /\ IF rule \in sourcecode_ruleset
           THEN /\ sc_results' =
                      DictUnion(sc_results,
                                format_semgrep_response(
                                    invoke_semgrep(rule, engine_findings), rule))
                /\ UNCHANGED <<an_pc, an_exception>>
           ELSE /\ an_exception' = <<rule, " is not an existing rule.">>
                /\ an_pc' = "raised"
                /\ UNCHANGED sc_results
    /\ UNCHANGED <<an_rules, sourcecode_rules, metadata_rules, results,
                   an_stderr, detect_calls, detect_outcome, engine_findings>>

\* the for loop of analyze_sourcecode ends and analyze returns
SourcecodeDone ==
    /\ an_pc = "sourcecode"
    /\ an_rules # None
    /\ an_pending = {}
    /\ an_pc' = "returned"
    /\ UNCHANGED <<an_rules, an_pending, sourcecode_rules, metadata_rules, results,
                   an_stderr, an_exception, detect_calls, semgrep_calls, detect_outcome, engine_findings, sc_results>>

\* ------------------------------------------------------------------------
\* Specifications: one per program, the others at rest
\* ------------------------------------------------------------------------
IdleRS ==
    /\ pc = "done"
    /\ remaining = 0
    /\ requirement = NoRequirement
    /\ specs = <<>>
    /\ valid_versions = None
    /\ dependencies = EmptyDict
    /\ stderr = {}
    /\ dependencies_keys = <<>>
    /\ scan_index = 1
    /\ project_results = EmptyDict

IdleGD ==
    /\ gd_pc = "done"
    /\ gd_remaining = 0
    /\ gd_requirement = NoGDRequirement
    /\ gd_dependencies = EmptyDict
    /\ gd_stderr = {}
    /\ VERIFY_EXHAUSTIVE_DEPENDENCIES = FALSE

IdleCli ==
    /\ cli_pc = "returned"
    /\ rules = <<>>
    /\ exclude_rules = <<>>
    /\ rule_param = [kind |-> "None", v |-> {}, t |-> <<>>]
    /\ scan_calls = <<>>
    /\ exit_code = NoExit
    /\ stdout = {}

IdleAn ==
    /\ an_pc = "returned"
    /\ an_rules = None
    /\ an_pending = {}
    /\ sourcecode_rules = {}
    /\ metadata_rules = {}
    /\ results = EmptyDict
    /\ an_stderr = {}
    /\ an_exception = NoException
    /\ detect_calls = {}
    /\ semgrep_calls = {}
    /\ detect_outcome = [r \in metadata_ruleset |-> "False"]
    /\ engine_findings = <<>>
    /\ sc_results = EmptyDict

\* RequirementsScanner.parse_requirements is called with a manifest
InitRS ==
    /\ pc = "req"
    /\ remaining \in 1..MaxLines
    /\ requirement = NoRequirement
    /\ specs = <<>>
    /\ valid_versions = None
    /\ dependencies = EmptyDict
    /\ stderr = {}
    /\ dependencies_keys = <<>>
    /\ scan_index = 1
    /\ project_results = EmptyDict
    /\ IdleGD /\ IdleCli /\ IdleAn

NextRS ==
    \/ SkipLine /\ UNCHANGED <<gdVars, cliVars, anVars>>
    \/ TakeRequirement /\ UNCHANGED <<gdVars, cliVars, anVars>>
    \/ BadLine /\ UNCHANGED <<gdVars, cliVars, anVars>>
    \/ EndOfRequirements /\ UNCHANGED <<gdVars, cliVars, anVars>>
    \/ ProcessSpec /\ UNCHANGED <<gdVars, cliVars, anVars>>
    \/ EndRequirement /\ UNCHANGED <<gdVars, cliVars, anVars>>
    \/ ScanDependency /\ UNCHANGED <<gdVars, cliVars, anVars>>
    \/ ScanReturn /\ UNCHANGED <<gdVars, cliVars, anVars>>

SpecRS == InitRS /\ [][NextRS]_vars

\* PypiRequirementsScanner.parse_requirements is called with a manifest
InitGD ==
    /\ gd_pc = "req"
    /\ gd_remaining \in 1..MaxLines
    /\ gd_requirement = NoGDRequirement
    /\ gd_dependencies = EmptyDict
    /\ gd_stderr = {}
    /\ VERIFY_EXHAUSTIVE_DEPENDENCIES \in BOOLEAN
    /\ IdleRS /\ IdleCli /\ IdleAn

NextGD ==
    \/ GDSkipLine /\ UNCHANGED <<rsVars, cliVars, anVars>>
    \/ GDBadLine /\ UNCHANGED <<rsVars, cliVars, anVars>>
    \/ GDRequirement /\ UNCHANGED <<rsVars, cliVars, anVars>>
    \/ GDEndOfRequirements /\ UNCHANGED <<rsVars, cliVars, anVars>>

SpecGD == InitGD /\ [][NextGD]_vars

\* a verify command is run with its --rules and --exclude-rules options
InitCli ==
    /\ cli_pc = "start"
    /\ rules \in RuleTuples
    /\ exclude_rules \in RuleTuples
    /\ rule_param = [kind |-> "None", v |-> {}, t |-> <<>>]
    /\ scan_calls = <<>>
    /\ exit_code = NoExit
    /\ stdout = {}
    /\ IdleRS /\ IdleGD /\ IdleAn

NextCli ==
    \/ VerifyGetRuleParam /\ UNCHANGED <<rsVars, gdVars, anVars>>
    \/ VerifyGetScanner /\ UNCHANGED <<rsVars, gdVars, anVars>>
    \/ VerifyScanLocal /\ UNCHANGED <<rsVars, gdVars, anVars>>
    \/ VerifyReturn /\ UNCHANGED <<rsVars, gdVars, anVars>>

SpecCli == InitCli /\ [][NextCli]_vars

\* Analyzer.analyze is called with a rules argument
InitAn ==
    /\ an_pc = "analyze"
    /\ an_rules \in {None} \cup { SetOf(S) : S \in SUBSET RuleNames }
    /\ an_pending = {}
    /\ sourcecode_rules = {}
    /\ metadata_rules = {}
    /\ results = EmptyDict
    /\ an_stderr = {}
    /\ an_exception = NoException
    /\ detect_calls = {}
    /\ semgrep_calls = {}
    /\ detect_outcome \in [metadata_ruleset -> DetectOutcomes]
    /\ engine_findings \in Responses(1)
    /\ sc_results = EmptyDict
    /\ IdleRS /\ IdleGD /\ IdleCli

NextAn ==
    \/ AnalyzeEnter /\ UNCHANGED <<rsVars, gdVars, cliVars>>
    \/ Classify /\ UNCHANGED <<rsVars, gdVars, cliVars>>
    \/ ClassifyDone /\ UNCHANGED <<rsVars, gdVars, cliVars>>
    \/ Detect /\ UNCHANGED <<rsVars, gdVars, cliVars>>
    \/ MetadataDone /\ UNCHANGED <<rsVars, gdVars, cliVars>>
    \/ SemgrepBatch /\ UNCHANGED <<rsVars, gdVars, cliVars>>
    \/ SemgrepRule /\ UNCHANGED <<rsVars, gdVars, cliVars>>
    \/ SourcecodeDone /\ UNCHANGED <<rsVars, gdVars, cliVars>>

SpecAn == InitAn /\ [][NextAn]_vars

\* Analyzer.analyze_sourcecode is called with a path and a rules argument
InitSc ==
    /\ an_pc = "sourcecode"
    /\ an_rules \in {None} \cup
            { SetOf(S) : S \in SUBSET (sourcecode_ruleset \cup {"no-such-rule"}) }
    /\ sourcecode_rules = an_rules.v
    /\ an_pending = an_rules.v
    /\ sc_results = NoLocations(IF an_rules = None THEN sourcecode_ruleset
                                ELSE an_rules.v)
    /\ engine_findings \in Responses(MaxFindings)
    /\ metadata_rules = {}
    /\ results = EmptyDict
    /\ an_stderr = {}
    /\ an_exception = NoException
    /\ detect_calls = {}
    /\ semgrep_calls = {}
    /\ detect_outcome = [r \in metadata_ruleset |-> "False"]
    /\ IdleRS /\ IdleGD /\ IdleCli

NextSc ==
    \/ SemgrepBatch /\ UNCHANGED <<rsVars, gdVars, cliVars>>
    \/ SemgrepRule /\ UNCHANGED <<rsVars, gdVars, cliVars>>
    \/ SourcecodeDone /\ UNCHANGED <<rsVars, gdVars, cliVars>>

SpecSc == InitSc /\ [][NextSc]_vars

\* ------------------------------------------------------------------------
\* Properties of pysecurity's parse_requirements (SpecRS)
\* ------------------------------------------------------------------------
KnownQualifiers == {">", "<", ">=", "<=", "==", "~="}

\* the for over the specs of the current requirement has ended, by
\* exhaustion or by an exception
RequirementEnded == pc \in {"req", "done"} /\ requirement # NoRequirement

AllKnown == \A i \in 1..Len(specs) : specs[i][1] \in KnownQualifiers

\* the candidate set the resolver computes for one specifier of the current
\* requirement; no candidate found counts as the empty set
Candidates(spec) == UsedVersions(spec[1], spec[2], Versions(requirement)).v

\* the intersection of the candidate sets of all specifiers iterated
CandidateIntersection ==
    { a \in Candidates(specs[1]) : \A i \in 1..Len(specs) : a \in Candidates(specs[i]) }

\* C1: a requirement with several (qualifier, version) constraints is mapped
\* to the intersection of the per-qualifier candidate sets (so that >=1.0
\* and <2.0 over {0.9, 1.0, 1.5, 1.9, 2.0, 2.1} give {1.0, 1.5, 1.9}).
C1_ResolvedIsIntersection ==
    (RequirementEnded /\ OnPyPI(requirement) /\ Len(specs) >= 2 /\ AllKnown)
        => /\ requirement \in DOMAIN dependencies
           /\ dependencies[requirement].kind = "set"
           /\ dependencies[requirement].v = CandidateIntersection

\* a shares the prefix of all but the last release segment of v and a >= v
CompatibleRelease(v, a) ==
    /\ VerLe(v, a)
    /\ \A i \in 1..(Len(Release(v)) - 1) : Seg(Release(a), i) = Release(v)[i]

\* C2: a single compatible-release constraint ~= v is resolved to exactly
\* the available versions that share the prefix of all but the last release
\* segment of v and are >= v.
C2_CompatibleReleaseSet ==
    (RequirementEnded /\ OnPyPI(requirement) /\ Len(specs) = 1 /\ specs[1][1] = "~=")
        => /\ requirement \in DOMAIN dependencies
           /\ dependencies[requirement].kind = "set"
           /\ dependencies[requirement].v =
                { a \in Releases[requirement] : CompatibleRelease(specs[1][2], a) }

\* a is kept by "qualifier b" under version ordering
KeptByVersionOrder(qualifier, b, a) ==
    CASE qualifier = ">"  -> VerLt(b, a)
      [] qualifier = "<"  -> VerLt(a, b)
      [] qualifier = ">=" -> VerLe(b, a)
      [] qualifier = "<=" -> VerLe(a, b)

\* C3: for >, <, >=, <= an available version is kept iff it compares with
\* the bound that way in version order (1.10 is kept by >1.9, not by <1.9).
C3_VersionOrdering ==
    (/\ RequirementEnded /\ OnPyPI(requirement) /\ Len(specs) = 1
     /\ specs[1][1] \in {">", "<", ">=", "<="})
        => /\ requirement \in DOMAIN dependencies
           /\ dependencies[requirement].kind = "set"
           /\ dependencies[requirement].v =
                { a \in Releases[requirement] :
                    KeptByVersionOrder(specs[1][1], specs[1][2], a) }

\* C5: a requirement whose constraints no available version satisfies is
\* mapped to the empty set: no exception ends the resolution and the value
\* is a set.
C5_UnsatisfiableIsEmptySet ==
    /\ <<"Received error", "TypeError">> \notin stderr
    /\ (/\ RequirementEnded /\ OnPyPI(requirement) /\ Len(specs) >= 1 /\ AllKnown
        /\ CandidateIntersection = {})
        => /\ requirement \in DOMAIN dependencies
           /\ dependencies[requirement] = SetOf({})

\* C6: a package whose version-list fetch failed has a diagnostic and no key
\* in the returned map.
C6_FailedFetchAbsent ==
    \A name \in ProjectNames :
        (<<"not on PyPI", name>> \in stderr /\ pc \in {"req", "done"})
            => name \notin DOMAIN dependencies

\* C7: a line that does not parse is dropped with a diagnostic and the lines
\* after it are still read and resolved.
C7_BadLineNotFatal ==
    (<<"Received error", "parse">> \in stderr) => ~(pc = "done" /\ remaining > 0)

\* ------------------------------------------------------------------------
\* Properties of guarddog's parse_requirements (SpecGD)
\* ------------------------------------------------------------------------
\* the available versions that satisfy every specifier of the requirement
Satisfying(req) ==
    { a \in Releases[req.project_name] :
        \A sp \in req.specifier : Contains(sp[1], sp[2], a) }

\* the maximum of a non-empty set of versions by version ordering
MaxVersion(S) == CHOOSE x \in S : \A y \in S : VerLe(y, x)

\* C4: in best-match mode a requirement with a non-empty satisfying set is
\* resolved to exactly one version, the maximum of that set by version
\* ordering. Stated for a requirement with one specifier.
C4_BestMatchIsMaximum ==
    (/\ ~VERIFY_EXHAUSTIVE_DEPENDENCIES
     /\ OnPyPI(gd_requirement.project_name)
     /\ Cardinality(gd_requirement.specifier) = 1
     /\ Satisfying(gd_requirement) # {})
        => /\ gd_requirement.project_name \in DOMAIN gd_dependencies
           /\ gd_dependencies[gd_requirement.project_name] =
                { MaxVersion(Satisfying(gd_requirement)) }

\* ------------------------------------------------------------------------
\* Properties of the rule selection of the command line (SpecCli)
\* ------------------------------------------------------------------------
BothGiven == Len(rules) > 0 /\ Len(exclude_rules) > 0

\* C8: with both --rules and --exclude-rules the command is rejected (the
\* message is printed, exit status 1) before a scanner is obtained and
\* before any scan runs; with only --exclude-rules the selection is the
\* catalog minus the excluded rules, with only --rules it is the requested
\* tuple as given.
C8_ConflictRejectedBeforeDispatch ==
    /\ BothGiven =>
        /\ cli_pc \in {"start", "exit"}
        /\ scan_calls = <<>>
        /\ cli_pc = "exit" =>
            /\ exit_code = 1
            /\ "--rules and --exclude-rules cannot be used together" \in stdout
    /\ (cli_pc # "start" /\ Len(rules) = 0 /\ Len(exclude_rules) > 0) =>
        /\ rule_param.kind = "set"
        /\ rule_param.v = ALL_RULES \ TupleSet(exclude_rules)
    /\ (cli_pc # "start" /\ Len(rules) > 0 /\ Len(exclude_rules) = 0) =>
        /\ rule_param.kind = "tuple"
        /\ rule_param.t = rules
    /\ \A i \in 1..Len(scan_calls) : scan_calls[i] = rule_param

\* C8 witness: a command line with both options has been rejected
C8_Witness ==
    /\ BothGiven
    /\ cli_pc = "exit"
    /\ exit_code = 1
    /\ scan_calls = <<>>

\* ------------------------------------------------------------------------
\* Properties of Analyzer.analyze and Analyzer.analyze_metadata (SpecAn)
\* ------------------------------------------------------------------------
Catalog == sourcecode_ruleset \cup metadata_ruleset

\* the rules analyze_metadata is called with
Selected == IF an_rules = None THEN metadata_ruleset ELSE metadata_rules

\* C9: every rule the loop of analyze has classified is in exactly one of
\* the two namespaces, and a requested set with a name of neither catalog
\* ends in the exception "<rule> is not a valid rule." with no detector and
\* no engine invocation made.
C9_InvalidRuleRaisesBeforeDispatch ==
    /\ sourcecode_rules \cap metadata_rules = {}
    /\ sourcecode_rules \subseteq sourcecode_ruleset
    /\ metadata_rules \subseteq metadata_ruleset
    /\ an_pc = "classify" =>
        sourcecode_rules \cup metadata_rules = an_rules.v \ an_pending
    /\ (an_rules # None /\ ~(an_rules.v \subseteq Catalog)) =>
        /\ an_pc \in {"analyze", "classify", "raised"}
        /\ detect_calls = {}
        /\ semgrep_calls = {}
        /\ (an_pc = "classify" /\ an_pending = {}) => FALSE
    /\ an_pc = "raised" =>
        /\ Len(an_exception) = 2
        /\ an_exception[1] \in an_rules.v \ Catalog
        /\ an_exception[2] = " is not a valid rule."

\* C9 witness: analyze has raised after classifying valid rules of the
\* request
C9_Witness ==
    /\ an_pc = "raised"
    /\ metadata_rules # {}
    /\ sourcecode_rules # {}

\* C10: when analyze_metadata has returned, the keys of its result are the
\* selected rules whose detector did not raise, each with the value the
\* detector returned; every selected detector was called, a raising one
\* left a diagnostic, and no exception left the function.
C10_DetectorFailuresIsolated ==
    /\ an_pc \in {"sourcecode", "returned"} =>
        /\ DOMAIN results = { r \in Selected : detect_outcome[r] # "raise" }
        /\ \A r \in DOMAIN results : results[r] = detect_outcome[r]
        /\ detect_calls = Selected
        /\ \A r \in Selected :
            detect_outcome[r] = "raise" <=> <<"Error while analyzing", r>> \in an_stderr
    /\ (an_rules = None \/ an_rules.v \subseteq Catalog) => an_pc # "raised"
    /\ an_pc = "metadata" => DOMAIN results \cup an_pending \subseteq Selected

\* C10 witness: analyze_metadata has returned with a raising detector
\* omitted and a sibling present
C10_Witness ==
    /\ an_pc \in {"sourcecode", "returned"}
    /\ \E r \in Selected : detect_outcome[r] = "raise"
    /\ \E r \in Selected : r \in DOMAIN results


\* ------------------------------------------------------------------------
\* C11
\* ------------------------------------------------------------------------
\* what analyze_sourcecode(path) returns for the findings: the batched mode
BatchedResults ==
    DictUnion(NoLocations(sourcecode_ruleset),
              format_semgrep_response(
                  invoke_semgrep("sourcecode/", engine_findings), NoRule))

\* analyze_sourcecode was called rule by rule over the whole catalog
WholeCatalogByRule == an_rules = SetOf(sourcecode_ruleset)

\* C11: for the same source tree and the same engine findings, the map that
\* analyze_sourcecode returns when run rule by rule over the whole
\* sourcecode catalog is the map the batched mode returns: the same rule
\* keys and, per rule, the same entries from location to matched text.
C11_BatchedEqualsByRule ==
    (an_pc = "returned" /\ (an_rules = None \/ WholeCatalogByRule))
        => sc_results = BatchedResults

\* a rule-by-rule run over the whole catalog has returned, for findings of
\* different rules
C11_Witness ==
    /\ an_pc = "returned"
    /\ WholeCatalogByRule
    /\ semgrep_calls = sourcecode_ruleset
    /\ Len(engine_findings) = MaxFindings
    /\ \E i, j \in DOMAIN engine_findings :
          engine_findings[i].check_id # engine_findings[j].check_id
    /\ \E r \in DOMAIN sc_results : sc_results[r] # <<>>

\* ------------------------------------------------------------------------
\* C12
\* ------------------------------------------------------------------------
\* the keys of the (package, version) pairs parse_requirements resolved
ResolvedKeys ==
    UNION { { ResultKey(d, v) : v \in dependencies[d].v } : d \in DOMAIN dependencies }

\* scan_requirements has ended, by returning or by raising
ScanEnded == pc \in {"returned", "raised"}

\* C12: for a manifest that resolves to (package, version) pairs, in
\* whatever order they are scanned, scan_requirements ends by returning a
\* report that holds one entry keyed "package/version" for each resolved pair
\* and no other entry.
C12_OneEntryPerResolvedPair ==
    (ScanEnded /\ ResolvedKeys # {})
        => (pc = "returned" /\ DOMAIN project_results = ResolvedKeys)

\* ------------------------------------------------------------------------
\* C13
\* ------------------------------------------------------------------------
\* the line of a published package that names no qualifier has been resolved
BareRequirementEnded ==
    /\ pc = "req"
    /\ requirement # NoRequirement
    /\ OnPyPI(requirement)
    /\ specs = <<>>

\* C13: a requirement line that is a bare package name, with no qualifier,
\* resolves to the set holding only the latest published version of the
\* package, the first element of the registry's descending version list.
C13_BareNameIsLatestOnly ==
    BareRequirementEnded
        => dependencies[requirement] = SetOf({Versions(requirement)[1]})

\* ------------------------------------------------------------------------
\* C14
\* ------------------------------------------------------------------------
\* EndRequirement stores the set of a line for a package that an earlier
\* line has already resolved to a set
DuplicateLineStored ==
    /\ pc = "spec"
    /\ pc' = "req"
    /\ requirement \in DOMAIN dependencies
    /\ dependencies[requirement].kind = "set"
    /\ valid_versions.kind = "set"

\* C14: when a later line of the manifest names a package that an earlier
\* line has resolved, the package's resolved set becomes the intersection of
\* the earlier set and the set of the later line; the later line does not
\* replace the earlier result.
C14_DuplicateLinesIntersect ==
    [][DuplicateLineStored
         => dependencies'[requirement] =
                SetOf(dependencies[requirement].v \cap valid_versions.v)]_vars

====
